---- MODULE Spec2Model ----
(***************************************************************************)
(* Model of the RE Platform authentication backend: the user table, the   *)
(* seed script, and the HTTP handlers /auth/register, /auth/login,         *)
(* /auth/me and /auth/logout with their dependency chain                   *)
(* (get_current_user -> get_current_active_user -> require_role).          *)
(* Each request runs in its own worker; one action is one stretch of a    *)
(* handler between two awaits on the database.                             *)
(***************************************************************************)
EXTENDS Integers, FiniteSets, Sequences, TLC

VARIABLES
    users,      \* the users table: id -> row
    nextId,     \* the primary-key sequence of the users table
    now,        \* datetime.utcnow(), in minutes
    tokens,     \* access tokens the clients hold
    pc,         \* per worker: where its request stands
    arg,        \* per worker: the request's inputs and the handler's locals
    result,     \* per worker: the HTTP response of the finished request
    fin,        \* pure-function harness: the inputs of the last call
    fout        \* pure-function harness: the value the last call returned

vars == <<users, nextId, now, tokens, pc, arg, result, fin, fout>>
store == <<users, nextId>>
harness == <<fin, fout>>

----------------------------------------------------------------------------
(* Bounds of the model *)

MaxTime == 30
TickStep == 30
MaxTokens == 1
NSalts == 1
MaxId == 2
MaxDeletes == 1

Procs == {"w1", "w2"}
Salts == 1..NSalts

(* Program constants *)

ACCESS_TOKEN_EXPIRE_MINUTES == 30

SECRET_KEY == "your-secret-key-change-this-in-production"

ADMIN == "ADMIN"
ANALYST == "ANALYST"
VIEWER == "VIEWER"
UserRole == {ADMIN, ANALYST, VIEWER}

\* UserRole.<name>.value
RoleValue(role) ==
    CASE role = ADMIN -> "admin"
      [] role = ANALYST -> "analyst"
      [] role = VIEWER -> "viewer"

(* Inputs the requests are drawn from *)

LoginUsernames == {"admin", "alice"}

NoTime == -1
NoUser == [id |-> 0]
NoArg == [op |-> "none"]
NoResult == [status |-> 0]
NoBody == [none |-> TRUE]
NoFullName == "None"

----------------------------------------------------------------------------
(* app.core.security: password hashing, token issue and decode *)

\* get_password_hash: salted one-way hash; the digest binds salt and password
get_password_hash(password, salt) ==
    [salt |-> salt, digest |-> <<salt, password>>]

\* verify_password: re-hash with the salt embedded in the hash and compare
verify_password(password, hashed) ==
    hashed.digest = <<hashed.salt, password>>

\* the signature of a payload under a key
Sign(key, payload) == [key |-> key, payload |-> payload]

\* create_access_token: claims plus exp = issue time + expires_delta, signed
create_access_token(data, expires_delta, t) ==
    LET payload == [sub |-> data.sub, user_id |-> data.user_id,
                    role |-> data.role, exp |-> t + expires_delta]
    IN  [payload |-> payload, sig |-> Sign(SECRET_KEY, payload)]

\* verify_token with the clock-skew allowance applied in the wrong direction
verify_token_EarlyExpiry(token, t) ==
    IF token.sig # Sign(SECRET_KEY, token.payload)
    THEN [ok |-> FALSE, error |-> "InvalidSignature"]
    ELSE IF t + 15 >= token.payload.exp
    THEN [ok |-> FALSE, error |-> "Expired"]
    ELSE [ok |-> TRUE, username |-> token.payload.sub,
          user_id |-> token.payload.user_id, role |-> token.payload.role]

\* verify_token: signature first, then expiry, then the claims as TokenData
verify_token(token, t) ==
    IF token.sig # Sign(SECRET_KEY, token.payload)
    THEN [ok |-> FALSE, error |-> "InvalidSignature"]
    ELSE IF t >= token.payload.exp
    THEN [ok |-> FALSE, error |-> "Expired"]
    ELSE [ok |-> TRUE, username |-> token.payload.sub,
          user_id |-> token.payload.user_id, role |-> token.payload.role]

----------------------------------------------------------------------------
(* The users table and the ORM objects loaded from it *)

\* a User object: the row with its primary key
Obj(id) == [id |-> id] @@ users[id]

\* the select with its WHERE clause lost: first() of the whole table
get_user_by_id_First(user_id) ==
    IF DOMAIN users = {} THEN NoUser
    ELSE Obj(CHOOSE i \in DOMAIN users : \A j \in DOMAIN users : i <= j)

\* select(User).where(User.id == user_id) ... first()
get_user_by_id(user_id) ==
    IF user_id \in DOMAIN users THEN Obj(user_id) ELSE NoUser

\* select(User).where(User.username == username) ... first()
get_user_by_username(username) ==
    LET ids == {i \in DOMAIN users : users[i].username = username}
    IN  IF ids = {} THEN NoUser ELSE Obj(CHOOSE i \in ids : \A j \in ids : i <= j)

\* select(User).where((username == ...) | (email == ...)) ... first() is not None
existing_user(user_data) ==
    \E i \in DOMAIN users :
        \/ users[i].username = user_data.username
        \/ users[i].email = user_data.email

\* the users table with unique=True left off both columns
UniqueOk_NoIndex(row) == TRUE

\* the unique indexes on username and email accept the row
UniqueOk(row) ==
    \A i \in DOMAIN users :
        /\ users[i].username # row.username
        /\ users[i].email # row.email

\* User(...) as the table stores it: column defaults filled in
User(username, email, hashed_password, full_name, role, is_active, is_verified) ==
    [username |-> username, email |-> email, hashed_password |-> hashed_password,
     full_name |-> full_name, role |-> role, is_active |-> is_active,
     is_verified |-> is_verified, last_login |-> NoTime]

\* UserResponse: the view of a user handed to the client
UserResponse(user) ==
    [id |-> user.id, username |-> user.username, email |-> user.email,
     full_name |-> user.full_name, role |-> RoleValue(user.role),
     is_active |-> user.is_active]

Response(status, detail, body) ==
    [status |-> status, detail |-> detail, body |-> body]

HTTPException(status, detail) == Response(status, detail, NoBody)

----------------------------------------------------------------------------
(* app.core.deps: the dependency chain in front of the protected handlers *)

NoCred == [scheme |-> "none"]
Bearer(token) == [scheme |-> "bearer", credentials |-> token]

Fail(exc) == [ok |-> FALSE, exc |-> exc]
Pass(user) == [ok |-> TRUE, user |-> user]

\* get_current_user with the is_active check left to the caller
get_current_user_NoActiveCheck(cred) ==
    IF cred.scheme # "bearer"
    THEN Fail(HTTPException(403, "Not authenticated"))
    ELSE LET token_data == verify_token(cred.credentials, now) IN
         IF ~token_data.ok
         THEN Fail(HTTPException(401, "Could not validate credentials"))
         ELSE LET user == get_user_by_id(token_data.user_id) IN
              IF user = NoUser
              THEN Fail(HTTPException(401, "Could not validate credentials"))
              ELSE Pass(user)

\* get_current_user that loads the user named in the payload before it looks at
\* what verify_token said
get_current_user_TrustsClaims(cred) ==
    IF cred.scheme # "bearer"
    THEN Fail(HTTPException(403, "Not authenticated"))
    ELSE LET token_data == verify_token(cred.credentials, now)
             user == get_user_by_id(cred.credentials.payload.user_id)
         IN  IF user # NoUser /\ ~user.is_active
             THEN Fail(HTTPException(400, "Inactive user"))
             ELSE IF ~token_data.ok \/ user = NoUser
             THEN Fail(HTTPException(401, "Could not validate credentials"))
             ELSE Pass(user)

\* get_current_user that reports a vanished user as a disabled account
get_current_user_VanishedInactive(cred) ==
    IF cred.scheme # "bearer"
    THEN Fail(HTTPException(403, "Not authenticated"))
    ELSE LET token_data == verify_token(cred.credentials, now) IN
         IF ~token_data.ok
         THEN Fail(HTTPException(401, "Could not validate credentials"))
         ELSE LET user == get_user_by_id(token_data.user_id) IN
              IF user = NoUser \/ ~user.is_active
              THEN Fail(HTTPException(400, "Inactive user"))
              ELSE Pass(user)

\* get_current_user: HTTPBearer, verify_token, lookup by the embedded user_id
get_current_user(cred) ==
    IF cred.scheme # "bearer"
    THEN Fail(HTTPException(403, "Not authenticated"))
    ELSE LET token_data == verify_token(cred.credentials, now) IN
         IF ~token_data.ok
         THEN Fail(HTTPException(401, "Could not validate credentials"))
         ELSE LET user == get_user_by_id(token_data.user_id) IN
              IF user = NoUser
              THEN Fail(HTTPException(401, "Could not validate credentials"))
              ELSE IF ~user.is_active
              THEN Fail(HTTPException(400, "Inactive user"))
              ELSE Pass(user)

\* get_current_active_user: the second active check
get_current_active_user(cred) ==
    LET r == get_current_user(cred) IN
    IF ~r.ok THEN r
    ELSE IF ~r.user.is_active
    THEN Fail(HTTPException(400, "Inactive user"))
    ELSE r

\* role_checker with a role ladder: an analyst may do what a viewer may
role_checker_Ladder(current_user, required_role) ==
    IF /\ current_user.role # required_role
       /\ current_user.role # ADMIN
       /\ ~(current_user.role = ANALYST /\ required_role = VIEWER)
    THEN Fail(HTTPException(403, "Not enough permissions"))
    ELSE Pass(current_user)

\* role_checker inside require_role(required_role)
role_checker(current_user, required_role) ==
    IF current_user.role # required_role /\ current_user.role # ADMIN
    THEN Fail(HTTPException(403, "Not enough permissions"))
    ELSE Pass(current_user)

\* require_role deciding on the role claim of the token
require_role_TokenRole(required_role, cred) ==
    LET r == get_current_active_user(cred) IN
    IF ~r.ok THEN r
    ELSE LET claimed == CHOOSE role \in UserRole :
                            RoleValue(role) = cred.credentials.payload.role
         IN  IF claimed # required_role /\ claimed # ADMIN
             THEN Fail(HTTPException(403, "Not enough permissions"))
             ELSE r

\* require_role(required_role) as a dependency over the bearer credentials
require_role(required_role, cred) ==
    LET r == get_current_active_user(cred) IN
    IF ~r.ok THEN r ELSE role_checker(r.user, required_role)

\* /auth/register guarded by get_current_active_user instead of require_admin
require_admin_AnyUser(cred) == get_current_active_user(cred)

require_admin(cred) == require_role(ADMIN, cred)

----------------------------------------------------------------------------
(* What a client can send *)

\* a held token with its claims rewritten (the seed admin's id and role, a
\* later expiry), the signature left as it was
Tamper(token) ==
    [token EXCEPT !.payload.user_id = 1, !.payload.role = "admin",
                  !.payload.exp = @ + ACCESS_TOKEN_EXPIRE_MINUTES]

Creds ==
    {NoCred}
        \cup {Bearer(t) : t \in tokens}
        \cup {Bearer(Tamper(t)) : t \in tokens}

\* the JSON bodies sent to /auth/register: full_name, role and is_active are
\* optional
RegisterBodies ==
    {[username |-> "alice", email |-> "alice@example.com",
      password |-> "testpass123", full_name |-> "Alice"],
     [username |-> "alice", email |-> "bob@example.com",
      password |-> "testpass123", role |-> ANALYST, is_active |-> FALSE],
     [username |-> "bob", email |-> "alice@example.com",
      password |-> "testpass123", full_name |-> "Bob", role |-> ADMIN,
      is_active |-> TRUE]}

\* UserCreate with is_active defaulting to False
UserCreate_InactiveDefault(body) ==
    [username |-> body.username, email |-> body.email, password |-> body.password,
     full_name |-> IF "full_name" \in DOMAIN body THEN body.full_name ELSE NoFullName,
     role |-> IF "role" \in DOMAIN body THEN body.role ELSE VIEWER,
     is_active |-> IF "is_active" \in DOMAIN body THEN body.is_active ELSE FALSE]

\* UserCreate(**body): the fields sent, the defaults of UserBase for the rest
UserCreate(body) ==
    [username |-> body.username, email |-> body.email, password |-> body.password,
     full_name |-> IF "full_name" \in DOMAIN body THEN body.full_name ELSE NoFullName,
     role |-> IF "role" \in DOMAIN body THEN body.role ELSE VIEWER,
     is_active |-> IF "is_active" \in DOMAIN body THEN body.is_active ELSE TRUE]

UserCreates == {UserCreate(body) : body \in RegisterBodies}

UserLogin(username, password) == [username |-> username, password |-> password]

UserLogins ==
    {UserLogin("admin", "admin123!"),
     UserLogin("alice", "testpass123"),
     UserLogin("alice", "admin123!")}

----------------------------------------------------------------------------
Init ==
    /\ users = <<>>
    /\ nextId = 1
    /\ now = 0
    /\ tokens = {}
    /\ pc = [p \in Procs |-> "idle"]
    /\ arg = [p \in Procs |-> NoArg]
    /\ result = [p \in Procs |-> NoResult]
    /\ fin = [fn |-> "none"]
    /\ fout = [none |-> TRUE]

\* an insert that takes the lowest id no row holds
Insert_LowestFreeId(row) ==
    LET free == {i \in 1..nextId : i \notin DOMAIN users}
        id == CHOOSE i \in free : \A j \in free : i <= j
    IN  /\ users' = (id :> row) @@ users
        /\ nextId' = IF id = nextId THEN nextId + 1 ELSE nextId

\* db.add(row); db.commit(): the insert takes the next id
Insert(row) ==
    /\ users' = (nextId :> row) @@ users
    /\ nextId' = nextId + 1

\* scripts/seed_admin.py create_admin_user
SeedAdmin ==
    LET row == User("admin", "admin@re-platform.local",
                    get_password_hash("admin123!", 1), "System Administrator",
                    ADMIN, TRUE, TRUE)
    IN  /\ get_user_by_username("admin") = NoUser
        /\ UniqueOk(row)
        /\ Insert(row)
        /\ UNCHANGED <<now, tokens, pc, arg, result, harness>>

\* a worker takes a request when it is not in the middle of one
Free(p) == pc[p] \in {"idle", "done"}

\* the handler goes on after an await: its locals stay, no response yet
Await(p, label, locals) ==
    /\ pc' = [pc EXCEPT ![p] = label]
    /\ arg' = [arg EXCEPT ![p] = locals]
    /\ result' = [result EXCEPT ![p] = NoResult]

\* the handler returns or raises: the response goes out, the locals are gone
Finish(p, response) ==
    /\ pc' = [pc EXCEPT ![p] = "done"]
    /\ arg' = [arg EXCEPT ![p] = NoArg]
    /\ result' = [result EXCEPT ![p] = response]

\* POST /auth/register, up to the first await of create_user: the dependencies
register(p, cred, user_data) ==
    /\ Free(p)
    /\ LET r == require_admin(cred) IN
       IF r.ok
       THEN Await(p, "create_user",
                  [op |-> "register", cred |-> cred, user_data |-> user_data])
       ELSE Finish(p, r.exc)
    /\ UNCHANGED <<store, now, tokens, harness>>

\* create_user as an upsert: a request for a name or address already taken
\* rewrites the record that holds it
create_user_Upsert(p) ==
    /\ pc[p] = "create_user"
    /\ IF existing_user(arg[p].user_data)
       THEN /\ Finish(p,
                      HTTPException(400, "Username or email already registered"))
            /\ users' = [i \in DOMAIN users |->
                           IF \/ users[i].username = arg[p].user_data.username
                              \/ users[i].email = arg[p].user_data.email
                           THEN [users[i] EXCEPT !.role = arg[p].user_data.role]
                           ELSE users[i]]
            /\ UNCHANGED nextId
       ELSE /\ Await(p, "create_user_commit", arg[p])
            /\ UNCHANGED store
    /\ UNCHANGED <<now, tokens, harness>>

\* AuthService.create_user: the existence check
create_user(p) ==
    /\ pc[p] = "create_user"
    /\ IF existing_user(arg[p].user_data)
       THEN Finish(p,
                   HTTPException(400, "Username or email already registered"))
       ELSE Await(p, "create_user_commit", arg[p])
    /\ UNCHANGED <<store, now, tokens, harness>>

\* AuthService.create_user: hash, db.add, db.commit, db.refresh
create_user_commit(p) ==
    /\ pc[p] = "create_user_commit"
    /\ \E salt \in Salts :
         LET d == arg[p].user_data
             row == User(d.username, d.email, get_password_hash(d.password, salt),
                         d.full_name, d.role, d.is_active, FALSE)
         IN  IF UniqueOk(row)
             THEN /\ Insert(row)
                  /\ Finish(p,
                            Response(201, "", UserResponse([id |-> nextId] @@ row)))
             ELSE \* IntegrityError, uncaught: get_db rolls back, the server answers 500
                  /\ Finish(p, HTTPException(500, "Internal Server Error"))
                  /\ UNCHANGED store
    /\ UNCHANGED <<now, tokens, harness>>

\* the columns of a loaded User that authenticate_user and login_user read
Loaded(user) ==
    IF user = NoUser THEN NoUser
    ELSE [id |-> user.id, username |-> user.username,
          hashed_password |-> user.hashed_password, role |-> user.role,
          is_active |-> user.is_active]

\* authenticate_user that forgets the is_active check
authenticate_user_NoActiveCheck(user, login_data) ==
    IF user = NoUser THEN NoUser
    ELSE IF ~verify_password(login_data.password, user.hashed_password) THEN NoUser
    ELSE user

\* AuthService.authenticate_user: the checks on the loaded user
authenticate_user(user, login_data) ==
    IF user = NoUser THEN NoUser
    ELSE IF ~verify_password(login_data.password, user.hashed_password) THEN NoUser
    ELSE IF ~user.is_active THEN NoUser
    ELSE user

\* the UPDATE of last_login issued without its WHERE id = ...
update_last_login_NoWhere(user) ==
    [i \in DOMAIN users |-> [users[i] EXCEPT !.last_login = now]]

\* user.last_login = datetime.utcnow(); db.commit()
update_last_login(user) ==
    [users EXCEPT ![user.id].last_login = now]

\* POST /auth/login, authenticate_user up to its first await: the select
login(p, login_data) ==
    /\ Free(p)
    /\ Await(p, "authenticate_user",
             [op |-> "login", login_data |-> login_data,
              user |-> Loaded(get_user_by_username(login_data.username))])
    /\ UNCHANGED <<store, now, tokens, harness>>

\* AuthService.login_user: the rest of authenticate_user, then the token
login_user(p) ==
    /\ pc[p] = "authenticate_user"
    /\ LET user == authenticate_user(arg[p].user, arg[p].login_data) IN
       IF user = NoUser
       THEN /\ Finish(p, HTTPException(401, "Incorrect username or password"))
            /\ UNCHANGED <<users, tokens>>
       ELSE LET access_token ==
                    create_access_token(
                        [sub |-> user.username, user_id |-> user.id,
                         role |-> RoleValue(user.role)],
                        ACCESS_TOKEN_EXPIRE_MINUTES, now)
            IN  IF user.id \notin DOMAIN users
                THEN \* the UPDATE of last_login matches no row: the commit raises,
                     \* get_db rolls back, the server answers 500
                     /\ Finish(p, HTTPException(500, "Internal Server Error"))
                     /\ UNCHANGED <<users, tokens>>
                ELSE /\ access_token \in tokens \/ Cardinality(tokens) < MaxTokens
                     /\ users' = update_last_login(user)
                     /\ tokens' = tokens \cup {access_token}
                     /\ Finish(p, Response(200, "",
                            [access_token |-> access_token, token_type |-> "bearer",
                             expires_in |-> ACCESS_TOKEN_EXPIRE_MINUTES * 60]))
    /\ UNCHANGED <<nextId, now, harness>>

\* GET /auth/me
get_current_user_info(p, cred) ==
    /\ Free(p)
    /\ LET r == get_current_active_user(cred) IN
       Finish(p, IF r.ok THEN Response(200, "", UserResponse(r.user)) ELSE r.exc)
    /\ UNCHANGED <<store, now, tokens, harness>>

\* a logout that ends the session on the server by switching the account off
logout_Revokes(p) ==
    /\ Free(p)
    /\ Finish(p, Response(200, "Successfully logged out", NoBody))
    /\ users' = [i \in DOMAIN users |->
                   IF \E t \in tokens : t.payload.user_id = i
                   THEN [users[i] EXCEPT !.is_active = FALSE]
                   ELSE users[i]]
    /\ UNCHANGED <<nextId, now, tokens, harness>>

\* POST /auth/logout
logout(p) ==
    /\ Free(p)
    /\ Finish(p, Response(200, "Successfully logged out", NoBody))
    /\ UNCHANGED <<store, now, tokens, harness>>

\* client-side token removal
discard_token(token) ==
    /\ token \in tokens
    /\ tokens' = tokens \ {token}
    /\ UNCHANGED <<store, now, pc, arg, result, harness>>

\* an operator switches an account off or on in the users table
set_is_active(id, is_active) ==
    /\ id \in DOMAIN users
    /\ users[id].is_active # is_active
    /\ users' = [users EXCEPT ![id].is_active = is_active]
    /\ UNCHANGED <<nextId, now, tokens, pc, arg, result, harness>>

\* time passes
Tick ==
    /\ now + TickStep <= MaxTime
    /\ now' = now + TickStep
    /\ UNCHANGED <<store, tokens, pc, arg, result, harness>>

Next ==
    \/ SeedAdmin
    \/ \E p \in Procs, cred \in Creds, d \in UserCreates : register(p, cred, d)
    \/ \E p \in Procs : create_user(p)
    \/ \E p \in Procs : create_user_commit(p)
    \/ \E p \in Procs, d \in UserLogins : login(p, d)
    \/ \E p \in Procs : login_user(p)
    \/ \E p \in Procs, cred \in Creds : get_current_user_info(p, cred)
    \/ \E p \in Procs : logout(p)
    \/ \E t \in tokens : discard_token(t)
    \/ \E id \in 1..MaxId, b \in BOOLEAN : set_is_active(id, b)
    \/ Tick

Spec == Init /\ [][Next]_vars

----------------------------------------------------------------------------
(* The same service with an operator working on the users table directly:   *)
(* rows are removed and roles are changed while tokens are out. Requests are *)
(* served one at a time by one worker.                                       *)

Clerk == "w1"

\* the roles the operator hands out: a promotion and a demotion
OpsRoles == {ADMIN, VIEWER}

\* the rows removed from the users table so far
Removed == (1..(nextId - 1)) \ DOMAIN users

\* an operator deletes a row of the users table
delete_user(id) ==
    /\ id \in DOMAIN users
    /\ Cardinality(Removed) < MaxDeletes
    /\ users' = [i \in DOMAIN users \ {id} |-> users[i]]
    /\ UNCHANGED <<nextId, now, tokens, pc, arg, result, harness>>

\* an operator changes the role column of a row
set_role(id, role) ==
    /\ id \in DOMAIN users
    /\ users[id].role # role
    /\ users' = [users EXCEPT ![id].role = role]
    /\ UNCHANGED <<nextId, now, tokens, pc, arg, result, harness>>

OpsNext ==
    \/ SeedAdmin
    \/ \E cred \in Creds, d \in UserCreates : register(Clerk, cred, d)
    \/ create_user(Clerk)
    \/ create_user_commit(Clerk)
    \/ \E d \in UserLogins : login(Clerk, d)
    \/ login_user(Clerk)
    \/ \E cred \in Creds : get_current_user_info(Clerk, cred)
    \/ logout(Clerk)
    \/ \E t \in tokens : discard_token(t)
    \/ \E id \in 1..MaxId, b \in BOOLEAN : set_is_active(id, b)
    \/ \E id \in DOMAIN users : delete_user(id)
    \/ \E id \in 1..MaxId, role \in OpsRoles : set_role(id, role)
    \/ Tick

SpecOps == Init /\ [][OpsNext]_vars

----------------------------------------------------------------------------
(* Responses by error kind *)

Conflict == HTTPException(400, "Username or email already registered")
InvalidCredentials == HTTPException(401, "Incorrect username or password")
Unauthenticated == HTTPException(401, "Could not validate credentials")
InactiveUser == HTTPException(400, "Inactive user")
Forbidden == HTTPException(403, "Not enough permissions")
InternalError == HTTPException(500, "Internal Server Error")

\* worker p answers, in this step, a request it took in this step
Answers(p) ==
    /\ Free(p)
    /\ pc'[p] = "done"
    /\ result'[p] # result[p] \/ pc[p] = "idle"

\* worker p's create_user returns or raises in this step
CreateUserEnds(p) ==
    /\ pc[p] \in {"create_user", "create_user_commit"}
    /\ pc'[p] = "done"

\* C1: of two Register requests with the same username or the same email,
\* run one after the other or with both existence checks before either insert,
\* one succeeds and the other fails with Conflict and with nothing else: a
\* create_user that ends while the store already holds its username or its
\* email ends with Conflict, and one that ends otherwise ends with 201.
C1_OneSuccessOneConflict ==
    [][\A p \in Procs :
          CreateUserEnds(p) =>
              IF existing_user(arg[p].user_data)
              THEN result'[p] = Conflict
              ELSE result'[p].status = 201]_vars

\* C2: no two distinct User records share a username, and no two share an email.
C2_UniqueUsernameAndEmail ==
    \A i, j \in DOMAIN users :
        i # j => /\ users[i].username # users[j].username
                 /\ users[i].email # users[j].email

\* C2 witness: three users are stored, and a registration that clashed with one
\* of them was refused at the insert.
C2_Witness ==
    /\ Cardinality(DOMAIN users) = 3
    /\ \E p \in Procs : result[p] = InternalError

\* the password is not the one the stored hash was made from
WrongPassword(user, login_data) ==
    user.hashed_password
        # get_password_hash(login_data.password, user.hashed_password.salt)

\* worker p's login_user returns or raises in this step
LoginEnds(p) == pc[p] = "authenticate_user" /\ pc'[p] = "done"

\* the three ways a login is refused, as worker p's login stands
UnknownUsername(p) == arg[p].user = NoUser
KnownWrongPassword(p) ==
    arg[p].user # NoUser /\ WrongPassword(arg[p].user, arg[p].login_data)
InactiveRightPassword(p) ==
    /\ arg[p].user # NoUser
    /\ ~WrongPassword(arg[p].user, arg[p].login_data)
    /\ ~arg[p].user.is_active

\* C3: for an unknown username, for a known user with a wrong password and for
\* an inactive user with the right password alike, authenticate_user returns
\* none and the login ends with the one InvalidCredentials response.
C3_RefusalsIndistinguishable ==
    [][\A p \in Procs :
          LoginEnds(p) /\ ( \/ UnknownUsername(p)
                            \/ KnownWrongPassword(p)
                            \/ InactiveRightPassword(p) )
          => /\ authenticate_user(arg[p].user, arg[p].login_data) = NoUser
             /\ result'[p] = InvalidCredentials
             /\ tokens' = tokens]_vars

\* C3 witness: one login has just been refused with InvalidCredentials while
\* another, for an inactive user with the right password, is about to be.
C3_Witness ==
    \E p, q \in Procs :
        /\ p # q
        /\ result[p] = InvalidCredentials
        /\ pc[q] = "authenticate_user"
        /\ InactiveRightPassword(q)

\* C4: last_login of a user changes only in the step that ends a successful
\* authentication of that user, and then to the current time; a refused login
\* changes no user's last_login.
C4_LastLoginOnlyOnSuccess ==
    [][/\ \A id \in DOMAIN users :
             users'[id].last_login # users[id].last_login
             => \E p \in Procs :
                   /\ LoginEnds(p)
                   /\ arg[p].user # NoUser /\ arg[p].user.id = id
                   /\ ~WrongPassword(arg[p].user, arg[p].login_data)
                   /\ arg[p].user.is_active
                   /\ result'[p].status = 200
                   /\ users'[id].last_login = now
       /\ \A p \in Procs :
             LoginEnds(p) /\ result'[p].status # 200
             => \A id \in DOMAIN users :
                   users'[id].last_login = users[id].last_login
       /\ \A p \in Procs :
             LoginEnds(p) /\ result'[p].status = 200
             => users'[arg[p].user.id].last_login = now]_vars

\* C4 witness: at a later time a login succeeded and stamped its user, another
\* login was refused, and the other account still has no last_login.
C4_Witness ==
    \E p, q \in Procs :
        /\ now > 0
        /\ result[p].status = 200 /\ "access_token" \in DOMAIN result[p].body
        /\ users[result[p].body.access_token.payload.user_id].last_login = now
        /\ result[q] = InvalidCredentials
        /\ \E id \in DOMAIN users :
              users[id].username \in LoginUsernames /\ users[id].last_login = NoTime

\* the token is correctly signed, unexpired, and names a stored user
ResolvesTo(token, id) ==
    /\ token.sig = Sign(SECRET_KEY, token.payload)
    /\ now < token.payload.exp
    /\ token.payload.user_id = id
    /\ id \in DOMAIN users

\* C5: an inactive user is returned neither by authentication nor by token
\* resolution: get_current_user and get_current_active_user pass only users the
\* store holds as active and answer InactiveUser for a good token of an
\* inactive user; a login loads is_active as the store holds it and succeeds
\* only if the loaded user is active; /auth/me returns only active users.
C5_InactiveNeverReturned ==
    [][/\ \A cred \in Creds :
             /\ get_current_user(cred).ok
                => users[get_current_user(cred).user.id].is_active
             /\ get_current_active_user(cred).ok
                => users[get_current_active_user(cred).user.id].is_active
             /\ \A id \in DOMAIN users :
                   ( /\ cred.scheme = "bearer"
                     /\ ResolvesTo(cred.credentials, id)
                     /\ ~users[id].is_active )
                   => /\ get_current_user(cred) = Fail(InactiveUser)
                      /\ get_current_active_user(cred) = Fail(InactiveUser)
       /\ \A p \in Procs :
             /\ ( Free(p) /\ pc'[p] = "authenticate_user" /\ arg'[p].user # NoUser )
                => arg'[p].user.is_active = users[arg'[p].user.id].is_active
             /\ ( LoginEnds(p) /\ arg[p].user # NoUser /\ ~arg[p].user.is_active )
                => result'[p] = InvalidCredentials
             /\ ( Answers(p) /\ result'[p].status = 200
                    /\ "id" \in DOMAIN result'[p].body )
                => users[result'[p].body.id].is_active]_vars

\* C5 witness: a user logged in, was then switched off, and a request got
\* InactiveUser while the client still holds that user's unexpired token.
C5_Witness ==
    \E p \in Procs, t \in tokens, id \in DOMAIN users :
        /\ result[p] = InactiveUser
        /\ ResolvesTo(t, id)
        /\ ~users[id].is_active
        /\ users[id].last_login # NoTime

\* the credentials are a correctly signed, unexpired token of a stored, active
\* user whose stored role is ADMIN
AdminCred(cred) ==
    /\ cred.scheme = "bearer"
    /\ \E id \in DOMAIN users :
          /\ ResolvesTo(cred.credentials, id)
          /\ users[id].is_active
          /\ users[id].role = ADMIN

\* C7: POST /auth/register creates a user only for a request whose bearer token
\* resolved, when the request came in, to a stored active ADMIN: a request gets
\* past the dependencies only with such a token, create_user's insert is reached
\* only from there, every row added to the table is the seed script's or the
\* insert of such a request, and a request refused by the dependencies adds
\* nothing.
C7_RegisterOnlyByAdmin ==
    [][/\ \A p \in Procs :
             /\ ( Free(p) /\ pc'[p] = "create_user" ) => AdminCred(arg'[p].cred)
             /\ ( pc'[p] = "create_user" /\ pc[p] # "create_user" ) => Free(p)
             /\ ( pc'[p] = "create_user_commit" /\ pc[p] # "create_user_commit" )
                => pc[p] = "create_user"
             /\ Answers(p) => DOMAIN users' = DOMAIN users
       /\ \A id \in DOMAIN users' \ DOMAIN users :
             \/ users'[id].is_verified /\ users'[id].username = "admin"
             \/ \E p \in Procs :
                   /\ pc[p] = "create_user_commit" /\ pc'[p] = "done"
                   /\ result'[p].status = 201 /\ result'[p].body.id = id]_vars

\* C7 witness: a user created through the endpoint is stored, its 201 is still
\* on one worker, and the other worker has refused a non-admin with Forbidden.
C7_Witness ==
    \E p, q \in Procs, id \in DOMAIN users :
        /\ ~users[id].is_verified
        /\ result[p].status = 201 /\ result[p].body.id = id
        /\ result[q] = Forbidden

\* the times a token is decoded at
DecodeTimes(token) ==
    {0, now, token.payload.exp - 1, token.payload.exp, token.payload.exp + 1,
     MaxTime + 1}

\* C9: decoding fails with InvalidSignature when the signature does not match
\* and with Expired at and after the embedded expiry; a token that fails at one
\* time fails at every later time; and a token that fails to decode is answered
\* Unauthenticated whatever the store holds under the user_id it names.
C9_DecodeFailures ==
    \A cred \in Creds :
        cred.scheme = "bearer" =>
            LET token == cred.credentials
                signed == token.sig = Sign(SECRET_KEY, token.payload)
            IN  /\ \A t \in DecodeTimes(token) :
                      /\ ~signed => verify_token(token, t)
                                      = [ok |-> FALSE, error |-> "InvalidSignature"]
                      /\ ( signed /\ t >= token.payload.exp )
                         => verify_token(token, t) = [ok |-> FALSE, error |-> "Expired"]
                      /\ ~verify_token(token, t).ok
                         => \A t2 \in DecodeTimes(token) :
                               t2 >= t => ~verify_token(token, t2).ok
                /\ ( ~signed \/ now >= token.payload.exp )
                   => /\ get_current_user(cred) = Fail(Unauthenticated)
                      /\ get_current_active_user(cred) = Fail(Unauthenticated)
                      /\ require_admin(cred) = Fail(Unauthenticated)

\* C9 witness: the clock stands exactly at the expiry of a held token whose
\* user is switched off, and a request has been answered Unauthenticated.
C9_Witness ==
    \E p \in Procs, t \in tokens :
        /\ now = t.payload.exp
        /\ t.payload.user_id \in DOMAIN users
        /\ ~users[t.payload.user_id].is_active
        /\ result[p] = Unauthenticated

LogoutResponse == Response(200, "Successfully logged out", NoBody)

\* C10: a logout changes nothing: the store, the clock and the tokens stay, every
\* credential resolves after it exactly as before, and a held token that was
\* good for an active user before the logout still returns that user after it.
C10_LogoutChangesNothing ==
    [][\A p \in Procs :
          ( Answers(p) /\ result'[p] = LogoutResponse )
          => /\ UNCHANGED <<users, nextId, now, tokens>>
             /\ \A cred \in Creds :
                   get_current_active_user(cred)' = get_current_active_user(cred)
             /\ \A t \in tokens, id \in DOMAIN users :
                   ( ResolvesTo(t, id) /\ users[id].is_active )
                   => get_current_active_user(Bearer(t))' = Pass(Obj(id))]_vars

\* C10 witness: a logout has been answered, and the token the client holds
\* still resolves to its active user.
C10_Witness ==
    \E p \in Procs, t \in tokens, id \in DOMAIN users :
        /\ result[p] = LogoutResponse
        /\ ResolvesTo(t, id)
        /\ users[id].is_active
        /\ get_current_active_user(Bearer(t)) = Pass(Obj(id))

\* the passwords tried against a stored hash
Passwords == {"testpass123", "admin123!"}

\* worker p's create_user returns the inserted user in this step
Registers(p) ==
    /\ pc[p] = "create_user_commit"
    /\ pc'[p] = "done"
    /\ result'[p].status = 201

\* C12: a successful Register persists, under a new id, a user with the
\* username, email and full_name that were sent, with the role that was sent or
\* VIEWER when none was, with is_active true unless the body says otherwise, and
\* with the hasher's output for the password sent: it verifies against that
\* password and no other, and the password itself is not stored. The response
\* is the view of that stored user.
C12_RegisterPersistsFields ==
    [][\A p \in Procs :
          Registers(p) =>
              /\ \E body \in RegisterBodies : UserCreate(body) = arg[p].user_data
              /\ \A body \in RegisterBodies :
                    UserCreate(body) = arg[p].user_data =>
                        \E id \in DOMAIN users' \ DOMAIN users :
                            /\ result'[p].body.id = id
                            /\ users'[id].username = body.username
                            /\ users'[id].email = body.email
                            /\ users'[id].full_name
                                 = IF "full_name" \in DOMAIN body
                                   THEN body.full_name ELSE NoFullName
                            /\ users'[id].role
                                 = IF "role" \in DOMAIN body THEN body.role ELSE VIEWER
                            /\ users'[id].is_active
                                 = IF "is_active" \in DOMAIN body
                                   THEN body.is_active ELSE TRUE
                            /\ \E salt \in Salts :
                                  users'[id].hashed_password
                                      = get_password_hash(body.password, salt)
                            /\ \A pw \in Passwords :
                                  verify_password(pw, users'[id].hashed_password)
                                      <=> pw = body.password
                            /\ "password" \notin DOMAIN users'[id]
                            /\ "password" \notin DOMAIN result'[p].body
                            /\ "hashed_password" \notin DOMAIN result'[p].body
                            /\ result'[p].body.username = body.username
                            /\ result'[p].body.email = body.email
                            /\ result'[p].body.full_name = users'[id].full_name
                            /\ result'[p].body.role = RoleValue(users'[id].role)
                            /\ result'[p].body.is_active = users'[id].is_active]_vars

\* C12 witness: a body with neither role nor is_active was registered, and the
\* stored user is an active VIEWER with the full name that was sent.
C12_Witness ==
    \E p \in Procs, id \in DOMAIN users :
        /\ result[p].status = 201 /\ result[p].body.id = id
        /\ users[id].username = "alice" /\ users[id].full_name = "Alice"
        /\ users[id].role = VIEWER /\ users[id].is_active
        /\ verify_password("testpass123", users[id].hashed_password)

\* C13: a Register that fails, at the existence check with Conflict or at the
\* insert with the uniqueness violation, adds no record and changes none: no
\* step of create_user other than the successful insert touches the users
\* table, and a request that ends without 201 ends in such a step.
C13_FailedRegisterLeavesStore ==
    [][\A p \in Procs :
          /\ ( pc[p] \in {"create_user", "create_user_commit"}
                /\ pc'[p] # pc[p] /\ ~Registers(p) )
             => users' = users
          /\ ( CreateUserEnds(p) /\ result'[p].status # 201 )
             => /\ result'[p] \in {Conflict, InternalError}
                /\ existing_user(arg[p].user_data)
                /\ DOMAIN users' = DOMAIN users
                /\ \A id \in DOMAIN users : users'[id] = users[id]]_vars

\* C13 witness: with three users stored, one Register has been refused with
\* Conflict and another has failed at the insert.
C13_Witness ==
    \E p, q \in Procs :
        /\ Cardinality(DOMAIN users) = 3
        /\ result[p] = Conflict
        /\ result[q] = InternalError

C14_ResolveOrder ==
    \A cred \in Creds :
        cred.scheme = "bearer" =>
            LET decoded == verify_token(cred.credentials, now)
                id == cred.credentials.payload.user_id
                r == get_current_user(cred)
            IN  /\ ~decoded.ok => r = Fail(Unauthenticated)
                /\ ( decoded.ok /\ id \notin DOMAIN users )
                   => r = Fail(Unauthenticated)
                /\ ( decoded.ok /\ id \in DOMAIN users /\ ~users[id].is_active )
                   => r = Fail(InactiveUser)
                /\ ( decoded.ok /\ id \in DOMAIN users /\ users[id].is_active )
                   => r = Pass(Obj(id))
                /\ r.ok => /\ decoded.ok
                           /\ id \in DOMAIN users
                           /\ users[id].is_active
                           /\ r.user = Obj(id)
                /\ get_current_active_user(cred) = r

\* C14 witness: a held token decodes but its user has been removed, a forged
\* token names a disabled account, and the request has been answered
\* Unauthenticated.
C14_Witness ==
    \E t \in tokens :
        /\ verify_token(t, now).ok
        /\ t.payload.user_id \notin DOMAIN users
        /\ ~verify_token(Tamper(t), now).ok
        /\ Tamper(t).payload.user_id \in DOMAIN users
        /\ ~users[Tamper(t).payload.user_id].is_active
        /\ result[Clerk] = Unauthenticated

\* C15: the active check and the role gate decide on what the store holds for
\* the token's user when the request comes in, not on the role claim of the
\* token: for every held token that resolves to a stored user and for every
\* required role, the gate answers InactiveUser when the stored is_active is
\* false, and otherwise passes exactly when the stored role is the required
\* role or ADMIN and answers Forbidden when it is not; and a Register gets past
\* its gate only with a token whose user is stored as an active ADMIN.
C15_GateUsesStoredRole ==
    [][/\ \A t \in tokens, id \in DOMAIN users, required_role \in UserRole :
             ResolvesTo(t, id) =>
                 LET r == require_role(required_role, Bearer(t)) IN
                 /\ ~users[id].is_active => r = Fail(InactiveUser)
                 /\ users[id].is_active =>
                       /\ r.ok <=> users[id].role \in {required_role, ADMIN}
                       /\ r.ok => r = Pass(Obj(id))
                       /\ ~r.ok => r = Fail(Forbidden)
       /\ \A p \in Procs :
             ( Free(p) /\ pc'[p] = "create_user" )
             => \E id \in DOMAIN users :
                   /\ id = arg'[p].cred.credentials.payload.user_id
                   /\ users[id].role = ADMIN
                   /\ users[id].is_active]_vars

\* C15 witness: the holder of a token issued to an admin has since been made a
\* viewer, and a Register sent with that token was answered Forbidden.
C15_Witness ==
    \E t \in tokens, id \in DOMAIN users :
        /\ ResolvesTo(t, id)
        /\ users[id].is_active
        /\ t.payload.role = RoleValue(ADMIN)
        /\ users[id].role = VIEWER
        /\ result[Clerk] = Forbidden

\* C16: a token resolves only to the user whose login minted it. The token is
\* minted with the id and username of the stored user that authenticated; ids
\* are handed out in increasing order and an id once used is never given to
\* another record; a record keeps its username and email while it is stored;
\* and get_current_user returns, for a held token, only the record stored under
\* the embedded user_id, which carries the username the token was minted with.
C16_TokenResolvesToItsUser ==
    [][/\ \A p \in Procs :
             ( LoginEnds(p) /\ result'[p].status = 200 )
             => /\ arg[p].user.id \in DOMAIN users
                /\ users[arg[p].user.id].username = arg[p].user.username
                /\ result'[p].body.access_token.payload.user_id = arg[p].user.id
                /\ result'[p].body.access_token.payload.sub = arg[p].user.username
       /\ nextId' >= nextId
       /\ \A id \in DOMAIN users : id < nextId
       /\ \A id \in DOMAIN users' \ DOMAIN users : nextId <= id /\ id < nextId'
       /\ \A id \in DOMAIN users \cap DOMAIN users' :
             /\ users'[id].username = users[id].username
             /\ users'[id].email = users[id].email
       /\ \A t \in tokens :
             /\ t.payload.user_id < nextId
             /\ get_current_user(Bearer(t)).ok
                => /\ get_current_user(Bearer(t)).user = Obj(t.payload.user_id)
                   /\ get_current_user(Bearer(t)).user.username = t.payload.sub]_vars

\* C16 witness: the user a held token was issued to has been removed, a user
\* of the same username has been created since under a later id, and the token
\* was answered Unauthenticated.
C16_Witness ==
    \E t \in tokens, id \in DOMAIN users :
        /\ verify_token(t, now).ok
        /\ t.payload.user_id \notin DOMAIN users
        /\ users[id].username = t.payload.sub
        /\ id > t.payload.user_id
        /\ result[Clerk] = Unauthenticated

----------------------------------------------------------------------------
(* The pure functions on their own: role_checker, create_access_token and  *)
(* verify_token applied to inputs drawn from small sets.                    *)

FnRoles == UserRole
FnClaims == [sub : {"admin", "alice"}, user_id : 1..MaxId, role : {"admin", "analyst", "viewer"}]
FnTimes == {0, 15, 30, 45, 60}
FnTtls == {15, 30}

\* a request guarded by require_role(required_role) reaches role_checker
call_role_checker(role, required_role) ==
    LET current_user == [id |-> 1, role |-> role, is_active |-> TRUE] IN
    /\ fin' = [fn |-> "role_checker", current_user |-> current_user,
               required_role |-> required_role]
    /\ fout' = role_checker(current_user, required_role)
    /\ UNCHANGED <<store, now, tokens, pc, arg, result>>

\* issue a token for a claim set
call_create_access_token(data, expires_delta, t) ==
    /\ fin' = [fn |-> "create_access_token", data |-> data,
               expires_delta |-> expires_delta, issued_at |-> t]
    /\ fout' = create_access_token(data, expires_delta, t)
    /\ UNCHANGED <<store, now, tokens, pc, arg, result>>

\* decode the token just issued, as it is or with its payload altered, at time t
call_verify_token(t, altered) ==
    /\ fin.fn = "create_access_token"
    /\ LET token == IF altered THEN Tamper(fout) ELSE fout IN
       /\ fin' = [fn |-> "verify_token", data |-> fin.data,
                  expires_delta |-> fin.expires_delta, issued_at |-> fin.issued_at,
                  token |-> token, altered |-> altered, at |-> t]
       /\ fout' = verify_token(token, t)
    /\ UNCHANGED <<store, now, tokens, pc, arg, result>>

FnNext ==
    \/ \E role \in FnRoles, required_role \in FnRoles :
          call_role_checker(role, required_role)
    \/ \E data \in FnClaims, ttl \in FnTtls, t \in FnTimes :
          call_create_access_token(data, ttl, t)
    \/ \E t \in FnTimes, altered \in BOOLEAN : call_verify_token(t, altered)

SpecFn == Init /\ [][FnNext]_vars

\* C6: role_checker lets a user through exactly when the user's role is the
\* required role or ADMIN, and otherwise raises Forbidden; so ADMIN passes every
\* gate, VIEWER fails the ADMIN gate and ANALYST fails the VIEWER gate.
C6_RoleGate ==
    fin.fn = "role_checker" =>
        LET role == fin.current_user.role
            required_role == fin.required_role
        IN  /\ fout.ok <=> (role = required_role \/ role = ADMIN)
            /\ fout.ok => fout = Pass(fin.current_user)
            /\ ~fout.ok => fout = Fail(Forbidden)
            /\ role = ADMIN => fout.ok
            /\ ( role = VIEWER /\ required_role = ADMIN ) => ~fout.ok
            /\ ( role = ANALYST /\ required_role = VIEWER ) => ~fout.ok

\* C6 witness: an analyst was refused at the viewer gate.
C6_Witness ==
    /\ fin.fn = "role_checker"
    /\ fin.current_user.role = ANALYST
    /\ fin.required_role = VIEWER
    /\ fout = Fail(Forbidden)

\* C8: a token issued for a claim set and a ttl, decoded unaltered at any time
\* strictly before issue time + ttl, decodes, and gives back the same username,
\* user_id and role.
C8_RoundTrip ==
    ( /\ fin.fn = "verify_token"
      /\ ~fin.altered
      /\ fin.at < fin.issued_at + fin.expires_delta )
    => /\ fout.ok
       /\ fout.username = fin.data.sub
       /\ fout.user_id = fin.data.user_id
       /\ fout.role = fin.data.role

\* C8 witness: a token was decoded after its issue time and before its expiry.
C8_Witness ==
    /\ fin.fn = "verify_token"
    /\ ~fin.altered
    /\ fin.issued_at < fin.at
    /\ fin.at < fin.issued_at + fin.expires_delta
    /\ fout.ok /\ fout.user_id = fin.data.user_id

====
